---- MODULE Spec2Model ----
(***************************************************************************)
(* Model of t2t/models/contrastive_text_encoder_util.py:                   *)
(*   get_world_size, sample_anchor_positive_pairs and                      *)
(*   all_gather_anchor_positive_pairs.                                     *)
(*                                                                         *)
(* Spec        the Cross-Replica Gatherer run by the replicas of a world   *)
(* SamplerSpec the Span Sampler run on one batch                           *)
(***************************************************************************)
EXTENDS Integers, Sequences, FiniteSets, TLC

\* ------------------------------------------------------------------ bounds
MaxW == 2
MaxSteps == 2
MaxBatch == 2
MaxSpans == 4
MaxSeqLen == 2

VARIABLES
  s_pc,           \* the Sampler call: start / returned / raised
  s_err,          \* the exception that left the Sampler call
  storage,        \* the memory the tensors of the Sampler are views of
  tokens,         \* the argument `tokens`, a TextFieldTensors
  index,          \* the two span indices drawn at line 37
  anchors,        \* the first TextFieldTensors returned at line 62
  positives,      \* the second TextFieldTensors returned at line 62
  touched,        \* which of the two results the caller has written to since
  initialized,    \* Replica World: init_process_group was called
  worldSize,      \* Replica World: number of replicas launched
  rank,           \* Replica World: rank of each replica
  pc,             \* where each replica is: idle / waitA / waitP / returned / raised
  calls,          \* per replica, per training step so far: the local batch
                  \*   size it called the Gatherer with, 0 when it did not call
  returnedAt,     \* per replica: the steps whose call returned a gathered pair
  nextId,         \* per replica: the next fresh tensor object identity
  inA, inP,       \* the arguments `anchors`, `positives` of the current call
  wsSeen,         \* what get_world_size() returned to the current call (line 89)
  anchors_list,   \* the local list of line 93
  positives_list, \* the local list of line 94
  outA, outP,     \* the pair the call returned
  sent,           \* per replica: the tensors it handed to dist.all_gather, in order
  rankQueried     \* per replica: dist.get_rank() was called by the current call

gvars == <<initialized, worldSize, rank, pc, calls, returnedAt, nextId, inA, inP,
           wsSeen, anchors_list, positives_list, outA, outP, sent, rankQueried>>

svars == <<s_pc, s_err, storage, tokens, index, anchors, positives, touched>>

vars == <<gvars, svars>>

Procs == 0..(MaxW - 1)
Replicas == 0..(worldSize - 1)
step(p) == Len(calls[p])

\* ------------------------------------------------------------------ tensors
\* An Embedding Tensor: an object identity and its rows along the batch
\* dimension.  A row holds its value and gsrc, the identity of the tensor its
\* gradient history leads back to (0: no gradient history).
NoTensor == [id |-> 0, rows |-> <<>>]

\* The value of row j of the embedding the encoder produced on replica r in
\* step t (kind 1: anchors, kind 2: positives): distinct for distinct origins.
EmbVal(kind, r, t, j) == kind * 1000 + t * 100 + r * 10 + j

\* The encoder's output: a tensor with live gradient history.
Embedding(id, kind, r, t, b) ==
  [id |-> id,
   rows |-> [j \in 1..b |-> [val |-> EmbVal(kind, r, t, j), gsrc |-> id]]]

Vals(x) == [j \in 1..Len(x.rows) |-> x.rows[j].val]

\* torch.ones_like(x): a new tensor of x's shape, all ones, no gradient history.
ones_like(x, id) ==
  [id |-> id, rows |-> [j \in 1..Len(x.rows) |-> [val |-> 1, gsrc |-> 0]]]

\* The receive side of dist.all_gather: the values of a peer copied in place
\* into a receive buffer; the buffer keeps its identity and has no history.
Received(buf, vals) ==
  [buf EXCEPT !.rows = [j \in 1..Len(vals) |-> [val |-> vals[j], gsrc |-> 0]]]

RECURSIVE CatRows(_)
CatRows(list) ==
  IF list = <<>> THEN <<>> ELSE Head(list).rows \o CatRows(Tail(list))

\* torch.cat(list): a new tensor, the rows of the list's tensors in list
\* order; autograd keeps each row's history.
cat(list, id) == [id |-> id, rows |-> CatRows(list)]

\* ------------------------------------------------------------------ runtime
AssertionError == -99

\* dist.get_world_size(): asserts that the default process group exists.
dist_get_world_size == IF initialized THEN worldSize ELSE AssertionError

\* get_world_size() without the try/except.
get_world_size_uncaught == dist_get_world_size

\* get_world_size(), lines 10-16.
get_world_size ==
  IF dist_get_world_size = AssertionError THEN -1 ELSE dist_get_world_size

\* dist.get_rank(): the rank of the calling replica.
dist_get_rank(p) == rank[p]

ProcOfRank(s) == CHOOSE q \in Replicas : rank[q] = s

\* ---------------------------------------------------------------- collective
\* dist.all_gather(..., async_op=True) never waited for.
Arrived_async(k) == TRUE

\* The collectives of a process group are matched in the order each replica
\* issues them: the call carries no step or tag (lines 95-96).  Ordinal k of
\* one replica meets ordinal k of every other.
Arrived(k) == \A q \in Replicas : Len(sent[q]) >= k

\* The tensors handed in at ordinal k, by the replicas that have, are of one shape.
ShapesAgree(k) ==
  \A q1, q2 \in Replicas :
    (Len(sent[q1]) >= k /\ Len(sent[q2]) >= k) => Len(sent[q1][k]) = Len(sent[q2][k])

\* dist.all_gather(list, tensor) at ordinal k: list[s] receives the tensor of
\* the replica of rank s.  A buffer whose peer has sent nothing stays as it
\* was allocated.
all_gather(list, k) ==
  [s \in 1..Len(list) |->
     LET q == ProcOfRank(s - 1)
     IN IF Len(sent[q]) >= k THEN Received(list[s], sent[q][k]) ELSE list[s]]

\* `list[0] = tensor` in place of line 99-100's index.
Splice_first(list, r, x) == [list EXCEPT ![1] = x]

\* Lines 99-100 left out: the received copy stays in the list.
Splice_none(list, r, x) == list

\* `list[dist.get_rank()] = tensor`, lines 99-100.
Splice(list, r, x) == [list EXCEPT ![r + 1] = x]

\* `return anchors.clone(), ...` in place of line 90: a new object.
NoOpResult_clone(x, id) == [x EXCEPT !.id = id]

\* `return anchors, positives`, line 90: the argument itself.
NoOpResult(x, id) == x

\* get_world_size() calling init_process_group when there is no process group.
QueriesOnly_initOnDemand == initialized' = TRUE /\ UNCHANGED <<worldSize, rank>>

\* What the Gatherer does to the Replica World: dist.get_world_size() (lines
\* 14, 93, 94) and dist.get_rank() (lines 99, 100) read it; nothing writes it.
QueriesOnly == UNCHANGED <<initialized, worldSize, rank>>

\* ------------------------------------------------------------------ actions
GInit ==
  /\ initialized \in BOOLEAN
  /\ worldSize \in 1..MaxW
  /\ ~initialized => worldSize = 1   \* no process group: a single process
  /\ rank \in {f \in [Procs -> Procs] :
               /\ \A q \in Procs : q >= worldSize => f[q] = q
               /\ \A q \in Replicas : f[q] \in Replicas
               /\ \A q1, q2 \in Replicas : f[q1] = f[q2] => q1 = q2}
  /\ pc = [p \in Procs |-> "idle"]
  /\ calls = [p \in Procs |-> <<>>]
  /\ returnedAt = [p \in Procs |-> {}]
  /\ nextId = [p \in Procs |-> 1]
  /\ inA = [p \in Procs |-> NoTensor]
  /\ inP = [p \in Procs |-> NoTensor]
  /\ wsSeen = [p \in Procs |-> 0]
  /\ anchors_list = [p \in Procs |-> <<>>]
  /\ positives_list = [p \in Procs |-> <<>>]
  /\ outA = [p \in Procs |-> NoTensor]
  /\ outP = [p \in Procs |-> NoTensor]
  /\ sent = [p \in Procs |-> <<>>]
  /\ rankQueried = [p \in Procs |-> FALSE]

\* The replica of rank 0 hands its positives to the first collective.
FirstSent_rank0Positives(p, a, x) == IF rank[p] = 0 THEN x ELSE a

\* The tensor handed to the first collective, line 95: the local anchors.
FirstSent(p, a, x) == a

\* Line 96 as a copy of line 95: the anchors handed in a second time.
SecondSent_anchors(p, a, x) == a

\* The tensor handed to the second collective, line 96: the local positives.
SecondSent(p, a, x) == x

\* Replica p calls all_gather_anchor_positive_pairs(anchors, positives) in its
\* next training step with a local batch of b rows: lines 89-95, up to the
\* point where the anchors collective blocks.
Call(p, b) ==
  /\ p \in Replicas
  /\ pc[p] \in {"idle", "returned"}
  /\ step(p) < MaxSteps
  /\ LET t == step(p) + 1
         a == Embedding(nextId[p], 1, p, t, b)
         x == Embedding(nextId[p] + 1, 2, p, t, b)
         ws == get_world_size
     IN /\ calls' = [calls EXCEPT ![p] = Append(@, b)]
        /\ inA' = [inA EXCEPT ![p] = a]
        /\ inP' = [inP EXCEPT ![p] = x]
        /\ wsSeen' = [wsSeen EXCEPT ![p] = ws]
        /\ rankQueried' = [rankQueried EXCEPT ![p] = FALSE]
        /\ IF ws = AssertionError
           THEN \* the error leaves the call
                /\ pc' = [pc EXCEPT ![p] = "raised"]
                /\ outA' = [outA EXCEPT ![p] = NoTensor]
                /\ outP' = [outP EXCEPT ![p] = NoTensor]
                /\ anchors_list' = [anchors_list EXCEPT ![p] = <<>>]
                /\ positives_list' = [positives_list EXCEPT ![p] = <<>>]
                /\ nextId' = [nextId EXCEPT ![p] = @ + 2]
                /\ UNCHANGED sent
           ELSE IF ws < 2
           THEN \* lines 89-90: the inputs themselves are returned
                /\ pc' = [pc EXCEPT ![p] = "returned"]
                /\ outA' = [outA EXCEPT ![p] = NoOpResult(a, nextId[p] + 2)]
                /\ outP' = [outP EXCEPT ![p] = NoOpResult(x, nextId[p] + 3)]
                /\ anchors_list' = [anchors_list EXCEPT ![p] = <<>>]
                /\ positives_list' = [positives_list EXCEPT ![p] = <<>>]
                /\ nextId' = [nextId EXCEPT ![p] = @ + 2]
                /\ UNCHANGED sent
           ELSE \* lines 93-95: the receive buffers, then the anchors collective
                LET w == dist_get_world_size
                IN /\ pc' = [pc EXCEPT ![p] = "waitA"]
                   /\ outA' = [outA EXCEPT ![p] = NoTensor]
                   /\ outP' = [outP EXCEPT ![p] = NoTensor]
                   /\ anchors_list' = [anchors_list EXCEPT ![p] =
                        [s \in 1..w |-> ones_like(a, nextId[p] + 1 + s)]]
                   /\ positives_list' = [positives_list EXCEPT ![p] =
                        [s \in 1..w |-> ones_like(x, nextId[p] + 1 + w + s)]]
                   /\ nextId' = [nextId EXCEPT ![p] = @ + 2 + 2 * w]
                   /\ sent' = [sent EXCEPT ![p] = Append(@, Vals(FirstSent(p, a, x)))]
  /\ QueriesOnly
  /\ UNCHANGED <<svars, returnedAt>>

\* Replica p goes through its next training step without calling the Gatherer.
Skip(p) ==
  /\ p \in Replicas
  /\ pc[p] \in {"idle", "returned"}
  /\ step(p) < MaxSteps
  /\ calls' = [calls EXCEPT ![p] = Append(@, 0)]
  /\ pc' = [pc EXCEPT ![p] = "idle"]
  /\ inA' = [inA EXCEPT ![p] = NoTensor]
  /\ inP' = [inP EXCEPT ![p] = NoTensor]
  /\ outA' = [outA EXCEPT ![p] = NoTensor]
  /\ outP' = [outP EXCEPT ![p] = NoTensor]
  /\ anchors_list' = [anchors_list EXCEPT ![p] = <<>>]
  /\ positives_list' = [positives_list EXCEPT ![p] = <<>>]
  /\ wsSeen' = [wsSeen EXCEPT ![p] = 0]
  /\ rankQueried' = [rankQueried EXCEPT ![p] = FALSE]
  /\ UNCHANGED <<svars, initialized, worldSize, rank, returnedAt, nextId, sent>>

\* Line 96 under `if dist.get_rank() == 0:`: only rank 0 issues the positives
\* collective.
CompleteAnchors_onlyRank0(p) ==
  /\ pc[p] = "waitA"
  /\ Arrived(Len(sent[p]))
  /\ ShapesAgree(Len(sent[p]))
  /\ anchors_list' = [anchors_list EXCEPT ![p] = all_gather(@, Len(sent[p]))]
  /\ sent' = [sent EXCEPT ![p] = IF rank[p] = 0 THEN Append(@, Vals(inP[p])) ELSE @]
  /\ pc' = [pc EXCEPT ![p] = "waitP"]
  /\ UNCHANGED <<svars, initialized, worldSize, rank, calls, returnedAt, nextId, inA, inP,
                 wsSeen, positives_list, outA, outP, rankQueried>>

\* The anchors collective of line 95 completes in replica p, which goes on to
\* issue the positives collective of line 96.
CompleteAnchors(p) ==
  /\ pc[p] = "waitA"
  /\ Arrived(Len(sent[p]))
  /\ ShapesAgree(Len(sent[p]))
  /\ anchors_list' = [anchors_list EXCEPT ![p] = all_gather(@, Len(sent[p]))]
  /\ sent' = [sent EXCEPT ![p] = Append(@, Vals(SecondSent(p, inA[p], inP[p])))]
  /\ pc' = [pc EXCEPT ![p] = "waitP"]
  /\ QueriesOnly
  /\ UNCHANGED <<svars, calls, returnedAt, nextId, inA, inP,
                 wsSeen, positives_list, outA, outP, rankQueried>>

\* The positives collective of line 96 completes in replica p: lines 96-105.
CompletePositives(p) ==
  /\ pc[p] = "waitP"
  /\ Arrived(Len(sent[p]))
  /\ ShapesAgree(Len(sent[p]))
  /\ LET al == Splice(anchors_list[p], dist_get_rank(p), inA[p])
         pl == Splice(all_gather(positives_list[p], Len(sent[p])),
                      dist_get_rank(p), inP[p])
     IN /\ anchors_list' = [anchors_list EXCEPT ![p] = al]
        /\ positives_list' = [positives_list EXCEPT ![p] = pl]
        /\ outA' = [outA EXCEPT ![p] = cat(al, nextId[p])]
        /\ outP' = [outP EXCEPT ![p] = cat(pl, nextId[p] + 1)]
  /\ nextId' = [nextId EXCEPT ![p] = @ + 2]
  /\ rankQueried' = [rankQueried EXCEPT ![p] = TRUE]
  /\ returnedAt' = [returnedAt EXCEPT ![p] = @ \cup {step(p)}]
  /\ pc' = [pc EXCEPT ![p] = "returned"]
  /\ QueriesOnly
  /\ UNCHANGED <<svars, calls, inA, inP, wsSeen, sent>>

\* The collective p waits in meets a tensor of another shape and raises.
CollectiveRaises(p) ==
  /\ pc[p] \in {"waitA", "waitP"}
  /\ ~ShapesAgree(Len(sent[p]))

\* try/except around lines 95-96 that falls back to the local pair.
OnCollectiveError_fallback(p) ==
  /\ pc' = [pc EXCEPT ![p] = "returned"]
  /\ outA' = [outA EXCEPT ![p] = inA[p]]
  /\ outP' = [outP EXCEPT ![p] = inP[p]]
  /\ returnedAt' = [returnedAt EXCEPT ![p] = @ \cup {step(p)}]

\* Lines 95-96 stand in no try/except: an error of the collective leaves
\* all_gather_anchor_positive_pairs, which returns nothing.
OnCollectiveError(p) ==
  /\ pc' = [pc EXCEPT ![p] = "raised"]
  /\ UNCHANGED <<outA, outP, returnedAt>>

Fail(p) ==
  /\ CollectiveRaises(p)
  /\ OnCollectiveError(p)
  /\ UNCHANGED <<svars, initialized, worldSize, rank, calls, nextId, inA, inP, wsSeen,
                 anchors_list, positives_list, sent, rankQueried>>

GNext ==
  \/ \E p \in Procs, b \in 1..MaxBatch : Call(p, b)
  \/ \E p \in Procs : Skip(p)
  \/ \E p \in Procs : CompleteAnchors(p)
  \/ \E p \in Procs : CompletePositives(p)
  \/ \E p \in Procs : Fail(p)


\* ================================================================== Sampler
\* A tensor is a view of a storage: the storage's identity, the shape, the
\* stride of each dimension and the offset of its first element.
NoView == [st |-> 0, shape |-> <<>>, stride |-> <<>>, off |-> 0]

SubFields == {"token_ids", "mask", "type_ids"}

NoFields == [tokens |-> [f \in SubFields |-> NoView]]

RECURSIVE Prod(_)
Prod(sh) == IF sh = <<>> THEN 1 ELSE Head(sh) * Prod(Tail(sh))

ContigStride(sh) == [i \in 1..Len(sh) |-> Prod(SubSeq(sh, i + 1, Len(sh)))]

RECURSIVE Dot(_, _)
Dot(a, b) == IF a = <<>> THEN 0 ELSE Head(a) * Head(b) + Dot(Tail(a), Tail(b))

\* The index tuple (0-based) of the n-th element (0-based) of a contiguous
\* tensor of shape sh.
Unravel(n, sh) == [i \in 1..Len(sh) |-> (n \div ContigStride(sh)[i]) % sh[i]]

\* The element of view x at the 0-based index tuple idx, in memory mem.
At(mem, x, idx) == mem[x.st][x.off + Dot(idx, x.stride) + 1]

Contiguous(st, sh) == [st |-> st, shape |-> sh, stride |-> ContigStride(sh), off |-> 0]

\* x.size(1), line 36.
size1(x) == x.shape[2]

\* torch.index_select(x, dim=1, index=idx): a new tensor in storage st whose
\* span k is span idx[k] of x.  The view ...
index_select(x, idx, st) == Contiguous(st, [x.shape EXCEPT ![2] = Len(idx)])

\* ... and the elements it is allocated with.
index_select_data(mem, x, idx) ==
  LET sh == [x.shape EXCEPT ![2] = Len(idx)]
      Elem(i) == At(mem, x, [i EXCEPT ![2] = idx[i[2] + 1]])
  IN [n \in 1..Prod(sh) |-> Elem(Unravel(n - 1, sh))]

\* The memory cells the elements of view x lie in.
Cells(x) ==
  {x.off + Dot(Unravel(n - 1, x.shape), x.stride) + 1 : n \in 1..Prod(x.shape)}

\* x.fill_(-7): every element of view x overwritten in place.
fill_(mem, x) ==
  [mem EXCEPT ![x.st] = [c \in 1..Len(mem[x.st]) |->
                           IF c \in Cells(x) THEN -7 ELSE mem[x.st][c]]]

\* The elements of the three tensors of a Field Tensor Set, in memory mem.
Contents(mem, fts) ==
  [f \in SubFields |->
     [n \in 1..Prod(fts.tokens[f].shape) |->
        At(mem, fts.tokens[f], Unravel(n - 1, fts.tokens[f].shape))]]

\* Both results taken from the first half: `torch.chunk(...)[0]` twice.
chunk_first(x, i) ==
  LET n == x.shape[2]
      csz == (n + 1) \div 2
  IN [x EXCEPT !.shape[2] = IF csz <= n THEN csz ELSE n]

\* `positive, anchor = torch.chunk(...)`: the two halves in the other order.
chunk_swapped(x, i) ==
  LET n == x.shape[2]
      csz == (n + 1) \div 2
      k == 1 - i
  IN [x EXCEPT !.shape[2] = IF (k + 1) * csz <= n THEN csz ELSE n - k * csz,
               !.off = x.off + k * csz * x.stride[2]]

\* torch.chunk(x, 2, dim=1)[i]: the i-th (0-based) of the two halves of x
\* along dimension 1, a view of x's storage.
chunk(x, i) ==
  LET n == x.shape[2]
      csz == (n + 1) \div 2
  IN [x EXCEPT !.shape[2] = IF (i + 1) * csz <= n THEN csz ELSE n - i * csz,
               !.off = x.off + i * csz * x.stride[2]]

RemoveAt(s, i) == SubSeq(s, 1, i - 1) \o SubSeq(s, i + 1, Len(s))

RECURSIVE DropOnes(_, _)
DropOnes(sh, st) ==
  IF sh = <<>> THEN [shape |-> <<>>, stride |-> <<>>]
  ELSE LET r == DropOnes(Tail(sh), Tail(st))
       IN IF Head(sh) = 1 THEN r
          ELSE [shape |-> <<Head(sh)>> \o r.shape, stride |-> <<Head(st)>> \o r.stride]

\* x.squeeze(): every dimension of size 1 removed.
squeeze_all(x) ==
  [x EXCEPT !.shape = DropOnes(x.shape, x.stride).shape,
            !.stride = DropOnes(x.shape, x.stride).stride]

\* x.squeeze(1): dimension 1 removed if its size is 1, a view of x's storage.
squeeze1(x) ==
  IF x.shape[2] = 1
  THEN [x EXCEPT !.shape = RemoveAt(x.shape, 2), !.stride = RemoveAt(x.stride, 2)]
  ELSE x

\* random.sample's pool step without the replacement of the picked element.
PoolAfterPick_keep(pool, j, last) == pool

\* random.sample: `pool[j] = pool[n - i - 1]`, the picked element leaves the pool.
PoolAfterPick(pool, j, last) == [pool EXCEPT ![j + 1] = pool[last + 1]]

\* random.choices(range(0, n), k=2): two indices drawn with replacement.
random_choices(n) ==
  IF n < 1 THEN {[err |-> TRUE, idx |-> <<>>]}
  ELSE {[err |-> FALSE, idx |-> <<j0, j1>>] : j0 \in 0..(n - 1), j1 \in 0..(n - 1)}

\* random.sample(range(0, n), 2), line 37: ValueError when the sample is larger
\* than the population; else two picks from a pool of the n indices (the
\* algorithm random.sample uses for a population of at most 21).
random_sample(n) ==
  IF ~(0 <= 2 /\ 2 <= n) THEN {[err |-> TRUE, idx |-> <<>>]}
  ELSE {[err |-> FALSE,
         idx |-> LET pool0 == [i \in 1..n |-> i - 1]
                     pool1 == PoolAfterPick(pool0, j0, n - 1)
                 IN <<pool0[j0 + 1], pool1[j1 + 1]>>] :
          j0 \in 0..(n - 1), j1 \in 0..(n - 2)}

\* The batch handed to the Sampler: B examples, S candidate spans, L tokens;
\* the three tensors of one shape, each in a storage of its own.
InputView(st, B, S, L) == Contiguous(st, <<B, S, L>>)

InputData(f, B, S, L, seed) ==
  [n \in 1..(B * S * L) |->
     CASE f = "token_ids" -> 100 * (seed + 1) + n
       [] f = "mask" -> (n + seed) % 2
       [] f = "type_ids" -> n]

StorageOf(f) == CASE f = "token_ids" -> 1 [] f = "mask" -> 2 [] f = "type_ids" -> 3

Storages == 1..6

SInit ==
  /\ s_pc = "start"
  /\ s_err = "none"
  /\ index = <<>>
  /\ anchors = NoFields
  /\ positives = NoFields
  /\ touched = "none"
  /\ \E B \in 1..MaxBatch, S \in 0..MaxSpans, L \in 1..MaxSeqLen, seed \in 0..1 :
       /\ tokens = [tokens |-> [f \in SubFields |-> InputView(StorageOf(f), B, S, L)]]
       /\ storage = [st \in Storages |->
                       CASE st = 1 -> InputData("token_ids", B, S, L, seed)
                         [] st = 2 -> InputData("mask", B, S, L, seed)
                         [] st = 3 -> InputData("type_ids", B, S, L, seed)
                         [] OTHER -> <<>>]

\* No Sampler call is under way.
SQuiet ==
  /\ s_pc = "start"
  /\ s_err = "none"
  /\ index = <<>>
  /\ anchors = NoFields
  /\ positives = NoFields
  /\ touched = "none"
  /\ tokens = NoFields
  /\ storage = [st \in Storages |-> <<>>]

\* Lines 39-41 with the selected token ids also written over the input's
\* first elements (an in-place op on tokens["tokens"]["token_ids"]).
AfterSelect_inplace(mem, toks, idx) ==
  [st \in Storages |->
     CASE st = 1 -> [c \in 1..Len(mem[1]) |->
                       IF c <= Len(index_select_data(mem, toks.tokens.token_ids, idx))
                       THEN index_select_data(mem, toks.tokens.token_ids, idx)[c]
                       ELSE mem[1][c]]
       [] st = 4 -> index_select_data(mem, toks.tokens.token_ids, idx)
       [] st = 5 -> index_select_data(mem, toks.tokens.mask, idx)
       [] st = 6 -> index_select_data(mem, toks.tokens.type_ids, idx)
       [] OTHER -> mem[st]]

\* The memory after lines 39-41: the three selected tensors are allocated in
\* storages of their own; the storages of the input stay as they are.
AfterSelect(mem, toks, idx) ==
  [st \in Storages |->
     CASE st = 4 -> index_select_data(mem, toks.tokens.token_ids, idx)
       [] st = 5 -> index_select_data(mem, toks.tokens.mask, idx)
       [] st = 6 -> index_select_data(mem, toks.tokens.type_ids, idx)
       [] OTHER -> mem[st]]

\* sample_anchor_positive_pairs(tokens), lines 36-62.
Sample ==
  /\ s_pc = "start"
  /\ LET num_spans == size1(tokens.tokens.token_ids)
     IN \E o \in random_sample(num_spans) :
          IF o.err
          THEN /\ s_pc' = "raised"
               /\ s_err' = "ValueError"
               /\ UNCHANGED <<storage, tokens, index, anchors, positives, touched>>
          ELSE LET random(f) == index_select(tokens.tokens[f], o.idx, StorageOf(f) + 3)
               IN /\ index' = o.idx
                  /\ storage' = AfterSelect(storage, tokens, o.idx)
                  /\ anchors' = [tokens |-> [f \in SubFields |-> squeeze1(chunk(random(f), 0))]]
                  /\ positives' = [tokens |-> [f \in SubFields |-> squeeze1(chunk(random(f), 1))]]
                  /\ s_pc' = "returned"
                  /\ UNCHANGED <<s_err, tokens, touched>>
  /\ UNCHANGED gvars

\* The caller writes to one tensor of a result in place (x.fill_(v)) after
\* the Sampler has returned.
Mutate(side, f) ==
  /\ s_pc = "returned"
  /\ s_pc' = "mutated"
  /\ touched' = side
  /\ storage' = fill_(storage,
                      IF side = "anchors" THEN anchors.tokens[f] ELSE positives.tokens[f])
  /\ UNCHANGED <<s_err, tokens, index, anchors, positives>>
  /\ UNCHANGED gvars

SNext ==
  \/ Sample
  \/ \E side \in {"anchors", "positives"}, f \in SubFields : Mutate(side, f)

\* ------------------------------------------------------------ specifications
\* The replicas of a world running the Gatherer.
Init == GInit /\ SQuiet
Next == GNext
Spec == Init /\ [][Next]_vars

\* Replica p calls the Gatherer in its next step with a batch of the size the
\* other replicas use in that step.
MatchedCall(p, b) ==
  /\ \A q \in Replicas : Len(calls[q]) > step(p) => calls[q][step(p) + 1] = b
  /\ Call(p, b)

\* A world of W >= 2 replicas in which every replica calls the Gatherer in
\* every step with tensors of matching shape.  Each replica is a process of
\* its own that keeps running, and a collective every replica has entered
\* completes.
FairInit == Init /\ initialized /\ worldSize >= 2
FairNext ==
  \/ \E p \in Procs, b \in 1..MaxBatch : MatchedCall(p, b)
  \/ \E p \in Procs : CompleteAnchors(p)
  \/ \E p \in Procs : CompletePositives(p)
FairSpec ==
  /\ FairInit
  /\ [][FairNext]_vars
  /\ \A p \in Procs :
       /\ WF_vars(\E b \in 1..MaxBatch : MatchedCall(p, b))
       /\ WF_vars(CompleteAnchors(p))
       /\ WF_vars(CompletePositives(p))

\* One call of the Sampler on one batch, in a single process.
SamplerInit == SInit /\ GInit /\ ~initialized
SamplerNext == SNext
SamplerSpec == SamplerInit /\ [][SamplerNext]_vars

\* =================================================================== claims
Gathered(p) == p \in Replicas /\ pc[p] = "returned" /\ wsSeen[p] >= 2

\* Every replica has called the Gatherer in each of the steps 1..t.
AllCalledThrough(t) ==
  \A q \in Replicas : Len(calls[q]) >= t /\ \A u \in 1..t : calls[q][u] # 0

\* The number of Gatherer calls replica q has made in its steps 1..t.
NumCalls(q, t) == Cardinality({u \in 1..t : u <= Len(calls[q]) /\ calls[q][u] # 0})

C2_GradientOnlyLocalSlice ==
  \A p \in Procs :
    Gathered(p) =>
      LET r == rank[p]
          B == Len(inA[p].rows)
          Local(i) == r * B < i /\ i <= (r + 1) * B
      IN /\ inA[p].id # 0 /\ inP[p].id # 0
         /\ anchors_list[p][r + 1] = inA[p]
         /\ positives_list[p][r + 1] = inP[p]
         /\ \A s \in 1..worldSize :
              s # r + 1 =>
                /\ anchors_list[p][s].id # inA[p].id
                /\ positives_list[p][s].id # inP[p].id
                /\ \A j \in 1..Len(anchors_list[p][s].rows) :
                     anchors_list[p][s].rows[j].gsrc = 0
                /\ \A j \in 1..Len(positives_list[p][s].rows) :
                     positives_list[p][s].rows[j].gsrc = 0
         /\ \A i \in 1..Len(outA[p].rows) :
              outA[p].rows[i].gsrc = (IF Local(i) THEN inA[p].id ELSE 0)
         /\ \A i \in 1..Len(outP[p].rows) :
              outP[p].rows[i].gsrc = (IF Local(i) THEN inP[p].id ELSE 0)

C2_Witness ==
  \E p \in Procs :
    /\ Gathered(p) /\ rank[p] = 1 /\ Len(inA[p].rows) = 2
    /\ outA[p].rows[3].gsrc = inA[p].id /\ outA[p].rows[1].gsrc = 0

\* C3: with a world size below 2 the call returns the two tensors it was
\* given: the same objects, with the gradient history the encoder gave them.
C3_NoOpReturnsInputs ==
  \A p \in Procs :
    (p \in Replicas /\ pc[p] = "returned" /\ wsSeen[p] < 2) =>
      /\ outA[p] = inA[p] /\ outP[p] = inP[p]
      /\ outA[p] = Embedding(outA[p].id, 1, p, step(p), calls[p][step(p)])
      /\ outP[p] = Embedding(outP[p].id, 2, p, step(p), calls[p][step(p)])
      /\ outA[p].id # 0 /\ outP[p].id # 0 /\ outA[p].id # outP[p].id

C3_Witness ==
  \E p \in Procs :
    /\ initialized /\ worldSize = 1 /\ pc[p] = "returned" /\ wsSeen[p] = 1
    /\ outA[p] = inA[p] /\ Len(outA[p].rows) = 2

\* C4: when the distributed runtime was never initialized no error leaves
\* the call: the world size is taken like a world size of 1 (get_world_size
\* absorbs the AssertionError and reports -1, which is below 2 as 1 is), and
\* the call takes the no-op path without the rank query or the collective.
C4_UninitializedIsNoOp ==
  ~initialized =>
    \A p \in Replicas :
      /\ pc[p] # "raised"
      /\ pc[p] = "returned" =>
           /\ wsSeen[p] = -1 /\ wsSeen[p] < 2
           /\ outA[p] = inA[p] /\ outP[p] = inP[p] /\ outA[p].id # 0
           /\ ~rankQueried[p]
           /\ sent[p] = <<>>
           /\ anchors_list[p] = <<>> /\ positives_list[p] = <<>>

C4_Witness ==
  /\ ~initialized
  /\ \E p \in Replicas : pc[p] = "returned" /\ step(p) = 2 /\ wsSeen[p] = -1

\* C5 as amended: for W >= 2 a replica returns from its n-th Gatherer call
\* only when every one of the W replicas has made its own n-th Gatherer call;
\* while some replica has not, the callers stay blocked.  (A replica that
\* skipped a step and calls in a later one releases them.)
C5_ReturnNeedsEveryReplicasCall ==
  \A p \in Replicas :
    /\ \A t \in returnedAt[p] :
         \A q \in Replicas : NumCalls(q, Len(calls[q])) >= NumCalls(p, t)
    /\ Gathered(p) => \A q \in Replicas : Len(sent[q]) >= Len(sent[p])

C5_Witness ==
  \E p, q \in Replicas :
    /\ pc[p] = "waitA" /\ step(p) = 1
    /\ Len(calls[q]) = MaxSteps /\ NumCalls(q, MaxSteps) = 0

\* C5 as claimed: if some replica does not call the Gatherer in a step, no
\* replica that called it in that step returns from it.
C5_Original ==
  \A p \in Replicas :
    \A t \in returnedAt[p] :
      \A q \in Replicas : Len(calls[q]) >= t => calls[q][t] # 0

\* C6 as amended: the Gatherer has no partial or degraded result and handles
\* no failure itself: a replica gets a pair back only when every replica has
\* handed tensors of its shape to both matched collectives, the pair then has
\* all W slices, and a replica whose collective raised has returned nothing.
C6_NoPartialResult ==
  \A p \in Replicas :
    /\ Gathered(p) =>
         LET k == Len(sent[p])
             B == Len(inA[p].rows)
         IN /\ k >= 2
            /\ \A q \in Replicas :
                 /\ Len(sent[q]) >= k
                 /\ Len(sent[q][k - 1]) = B /\ Len(sent[q][k]) = B
            /\ Len(outA[p].rows) = worldSize * B
            /\ Len(outP[p].rows) = worldSize * B
            /\ \A i \in 1..(worldSize * B) :
                 outA[p].rows[i].val # 1 /\ outP[p].rows[i].val # 1
    /\ pc[p] = "raised" =>
         /\ outA[p] = NoTensor /\ outP[p] = NoTensor
         /\ step(p) \notin returnedAt[p]

C6_Witness ==
  \E p, q \in Replicas :
    /\ pc[p] = "raised" /\ pc[q] \in {"waitA", "raised"}
    /\ step(p) = 1 /\ step(q) = 1 /\ calls[p][1] # calls[q][1]

\* C6 as claimed: in a step where the replicas' shapes differ or where not
\* every replica contributes, no replica gets a gathered pair back.
C6_Original ==
  \A p \in Replicas :
    \A t \in returnedAt[p] :
      \A q \in Replicas : Len(calls[q]) >= t => calls[q][t] = calls[p][t]

NumSpans == tokens.tokens.token_ids.shape[2]
BatchSize == tokens.tokens.token_ids.shape[1]
SeqLen == tokens.tokens.token_ids.shape[3]

\* C7: on an input with fewer than 2 candidate spans (0 or 1) the Sampler call
\* fails with the precondition error (random.sample's ValueError) and returns
\* no anchors or positives.
C7_TooFewSpansFails ==
  (NumSpans < 2 /\ s_pc # "start") =>
    /\ s_pc = "raised" /\ s_err = "ValueError"
    /\ anchors = NoFields /\ positives = NoFields /\ index = <<>>

C7_Witness == NumSpans = 1 /\ BatchSize = 2 /\ s_pc = "raised"

\* C8: on an input with n >= 2 candidate spans, the two span indices drawn
\* both lie in [0, n) and differ.
C8_IndicesDistinctInRange ==
  (NumSpans >= 2 /\ s_pc # "start") =>
    /\ s_pc \in {"returned", "mutated"}
    /\ Len(index) = 2
    /\ index[1] \in 0..(NumSpans - 1)
    /\ index[2] \in 0..(NumSpans - 1)
    /\ index[1] # index[2]

C8_Witness ==
  NumSpans = 3 /\ s_pc = "returned" /\ index = <<2, 0>>

\* C9: one pair of span indices serves the whole batch: for every sub-field,
\* every example b and every token position l, the anchor holds the input at
\* span index[1] (the first index drawn) and the positive the input at span
\* index[2] (the second).
C9_OnePairForTheBatch ==
  s_pc = "returned" =>
    \A f \in SubFields, b \in 0..(BatchSize - 1), l \in 0..(SeqLen - 1) :
      /\ At(storage, anchors.tokens[f], <<b, l>>)
           = At(storage, tokens.tokens[f], <<b, index[1], l>>)
      /\ At(storage, positives.tokens[f], <<b, l>>)
           = At(storage, tokens.tokens[f], <<b, index[2], l>>)

C9_Witness ==
  /\ s_pc = "returned" /\ BatchSize = 2 /\ SeqLen = 2 /\ NumSpans = 3
  /\ index = <<1, 0>>
  /\ At(storage, anchors.tokens.token_ids, <<1, 1>>)
       # At(storage, positives.tokens.token_ids, <<1, 1>>)

\* C10: on an input with at least 2 candidate spans the anchors and the
\* positives returned are Field Tensor Sets of one structure: the field
\* "tokens" with the sub-fields token_ids, mask and type_ids, each tensor with
\* the batch size of the input and the span dimension removed.
C10_SameStructure ==
  (NumSpans >= 2 /\ s_pc = "returned") =>
    /\ DOMAIN anchors = {"tokens"} /\ DOMAIN positives = {"tokens"}
    /\ DOMAIN anchors.tokens = SubFields /\ DOMAIN positives.tokens = SubFields
    /\ \A f \in SubFields :
         /\ anchors.tokens[f].shape = <<BatchSize, SeqLen>>
         /\ positives.tokens[f].shape = <<BatchSize, SeqLen>>

C10_Witness ==
  /\ s_pc = "returned" /\ NumSpans = 4 /\ BatchSize = 1 /\ SeqLen = 1
  /\ anchors.tokens.mask.shape = <<1, 1>>

\* C11: the anchors and the positives returned are independent: writing in
\* place to any tensor of the anchors leaves every tensor of the positives as
\* it was, and writing to any tensor of the positives leaves the anchors.
C11_ResultsIndependent ==
  [][(s_pc = "returned" /\ s_pc' = "mutated") =>
       /\ touched' = "anchors" =>
            /\ Contents(storage', positives) = Contents(storage, positives)
            /\ Contents(storage', anchors) # Contents(storage, anchors)
       /\ touched' = "positives" =>
            /\ Contents(storage', anchors) = Contents(storage, anchors)
            /\ Contents(storage', positives) # Contents(storage, positives)]_vars

C11_Witness ==
  /\ s_pc = "mutated" /\ touched = "anchors" /\ BatchSize = 2 /\ SeqLen = 2
  /\ At(storage, anchors.tokens.token_ids, <<1, 1>>) = -7
  /\ At(storage, positives.tokens.token_ids, <<1, 1>>) # -7
  /\ anchors.tokens.token_ids.st = positives.tokens.token_ids.st

\* C12: the Gatherer only reads the Replica World: no step of a Gatherer
\* call, on the no-op or on the multi-replica path, changes the world size or
\* a replica's rank, and none initializes the runtime.
C12_ReplicaWorldReadOnly ==
  [][/\ initialized' = initialized
     /\ worldSize' = worldSize
     /\ rank' = rank]_vars

C12_Witness ==
  /\ initialized /\ worldSize = 2 /\ rank[0] = 1
  /\ \A p \in Replicas : Gathered(p) /\ step(p) = 2 /\ rankQueried[p]

\* C13: the Sampler call has no side effect: after it every tensor of the
\* input has the shape and the elements it had before, and the Replica World
\* and the rest of the process state are as before.
C13_SamplerLeavesInput ==
  [][s_pc = "start" =>
       /\ tokens' = tokens
       /\ Contents(storage', tokens') = Contents(storage, tokens)
       /\ \A f \in SubFields : storage'[StorageOf(f)] = storage[StorageOf(f)]
       /\ gvars' = gvars]_vars

C13_Witness ==
  /\ s_pc = "returned" /\ NumSpans = 3 /\ BatchSize = 2 /\ index = <<2, 1>>
  /\ storage[4] # <<>>
  /\ Contents(storage, anchors) # Contents(storage, positives)

CalledEveryStep == \A q \in Replicas : \A u \in 1..Len(calls[q]) : calls[q][u] # 0

\* What a value tells of its origin.
KindOf(v) == v \div 1000
StepOf(v) == (v % 1000) \div 100

\* C15: every replica issues the anchors collective before the positives
\* collective, so while every replica calls the Gatherer once per step the
\* k-th collective of one replica meets the k-th of every other: collective
\* 2t-1 carries the anchors of step t and collective 2t its positives on every
\* replica, and the anchors receive buffers of a replica in step t hold the
\* anchors of step t of the replica of their rank, the positives receive
\* buffers its positives, never the other kind or another step.
C15_CollectivesPairUp ==
  CalledEveryStep =>
    \A p \in Procs :
      (p \in Replicas /\ wsSeen[p] >= 2) =>
        LET t == step(p)
        IN /\ pc[p] = "waitA" =>
                Len(sent[p]) = 2 * t - 1 /\ sent[p][2 * t - 1] = Vals(inA[p])
           /\ pc[p] \in {"waitP", "returned"} =>
                /\ Len(sent[p]) = 2 * t
                /\ sent[p][2 * t - 1] = Vals(inA[p])
                /\ sent[p][2 * t] = Vals(inP[p])
                /\ \A s \in 1..Len(anchors_list[p]) :
                     LET q == ProcOfRank(s - 1)
                     IN /\ Len(anchors_list[p][s].rows) = calls[q][t]
                        /\ \A j \in 1..Len(anchors_list[p][s].rows) :
                             anchors_list[p][s].rows[j].val = EmbVal(1, q, t, j)
           /\ pc[p] = "returned" =>
                \A s \in 1..Len(positives_list[p]) :
                  LET q == ProcOfRank(s - 1)
                  IN /\ Len(positives_list[p][s].rows) = calls[q][t]
                     /\ \A j \in 1..Len(positives_list[p][s].rows) :
                          positives_list[p][s].rows[j].val = EmbVal(2, q, t, j)
           /\ \A q \in Replicas : \A k \in 1..Len(sent[p]) :
                k <= Len(sent[q]) =>
                  /\ KindOf(sent[p][k][1]) = KindOf(sent[q][k][1])
                  /\ StepOf(sent[p][k][1]) = StepOf(sent[q][k][1])

C15_Witness ==
  /\ CalledEveryStep
  /\ \E p, q \in Replicas :
       /\ p # q /\ pc[p] = "waitP" /\ step(p) = 2 /\ rank[p] = 0
       /\ anchors_list[p][2].rows[1].val = EmbVal(1, q, 2, 1)
       /\ pc[q] = "returned" /\ step(q) = 2 /\ Len(sent[q]) = 4

\* C16: for W >= 2, on every replica, row i of the returned anchors and row i
\* of the returned positives come from the same replica, the same step and
\* the same local row, the local slice included: the two tensors have the
\* same number of rows, and a row carries gradient history in the one
\* exactly when it does in the other.
C16_PairsStayAligned ==
  \A p \in Procs :
    Gathered(p) =>
      /\ Len(outA[p].rows) = Len(outP[p].rows)
      /\ \A i \in 1..Len(outA[p].rows) :
           /\ KindOf(outA[p].rows[i].val) = 1
           /\ outP[p].rows[i].val = outA[p].rows[i].val + 1000
           /\ (outA[p].rows[i].gsrc = inA[p].id) = (outP[p].rows[i].gsrc = inP[p].id)
           /\ (outA[p].rows[i].gsrc = 0) = (outP[p].rows[i].gsrc = 0)

C16_Witness ==
  \E p \in Procs :
    /\ Gathered(p) /\ step(p) = 2 /\ rank[p] = 1
    /\ Len(outA[p].rows) = 4
    /\ outA[p].rows[1].gsrc = 0 /\ outA[p].rows[3].gsrc = inA[p].id
    /\ outP[p].rows[2].val = outA[p].rows[2].val + 1000

====
